---- MODULE Spec2Model ----
(***************************************************************************)
(* Model of pyetm.utils.regionalisation: the two validators                *)
(* (validate_hourly_curves_balance, validate_regionalisation) and the two  *)
(* entry points (regionalise_curves, regionalise_node).                    *)
(*                                                                         *)
(* Tables are positional, like a DataFrame: an index (row labels), a       *)
(* sequence of column labels and a matrix of values.  Numbers are          *)
(* fixed-point integers: curve values carry 2 decimals (1 = 0.01 MW),      *)
(* weights carry 4 decimals (1 = 0.0001), products of the two carry 6.     *)
(* Sums and products are therefore exact; the rounding of the validators   *)
(* is numpy's (to the nearest, ties to even).  A NaN cell is recorded by   *)
(* the label of its column in nacols (pandas makes whole columns NaN when  *)
(* it aligns labels), with 0 standing in the matrix.                       *)
(*                                                                         *)
(* A behaviour is one call: the caller holds curves and reg, calls one of  *)
(* the four functions once and observes what it returned or raised and     *)
(* what it logged.                                                         *)
(*                                                                         *)
(* The custom curve methods of pyetm.client (CustomCurveMethods on top of  *)
(* SessionMethods) are a second state machine, SpecClient: a client makes  *)
(* any sequence of uploads, deletes and reads against one scenario.        *)
(***************************************************************************)
EXTENDS Integers, Sequences, FiniteSets, TLC

VARIABLES curves, reg, call, outcome, log

\* the client of pyetm.client: the custom curves the server holds for the
\* scenario, the two lru caches of the client and its last call
VARIABLES server, header_cache, ccurves_cache, last

clientvars == <<server, header_cache, ccurves_cache, last>>

vars == <<curves, reg, call, outcome, log, clientvars>>

-----------------------------------------------------------------------------
(* Bounds of the model and defaults of the program *)

\* number of hourly rows of a generated curve table
NumHours == 2

\* validate_hourly_curves_balance(..., precision: int = 1, ...)
DefaultPrecision == 1

\* validate_regionalisation(..., prec: int = 3, ...)
DefaultPrec == 3

-----------------------------------------------------------------------------
(* Generic helpers *)

Range(s) == {s[i] : i \in 1..Len(s)}

RECURSIVE SumSeq(_)
SumSeq(s) == IF s = <<>> THEN 0 ELSE s[1] + SumSeq(Tail(s))

RECURSIVE Pow10(_)
Pow10(n) == IF n <= 0 THEN 1 ELSE 10 * Pow10(n - 1)

\* position of label k in the sequence of labels s (0 when absent)
Pos(s, k) == IF k \in Range(s) THEN CHOOSE i \in 1..Len(s) : s[i] = k ELSE 0

\* variant: rounds towards minus infinity instead of to the nearest
RoundDown(x, q) == (x \div q) * q

\* numpy's round: x / q rounded to the nearest integer, ties to even, times q
RoundHalfEven(x, q) ==
    LET f == x \div q
        r == x % q
    IN  IF 2 * r < q THEN f * q
        ELSE IF 2 * r > q THEN (f + 1) * q
        ELSE IF f % 2 = 0 THEN f * q ELSE (f + 1) * q

\* Series.round(digits) of a fixed-point number that carries `decimals` decimals
Round(x, digits, decimals) ==
    IF digits >= decimals THEN x ELSE RoundHalfEven(x, Pow10(decimals - digits))

-----------------------------------------------------------------------------
(* Column keys.  A key is the pair <<stem, suffix>>; its text is the two   *)
(* joined.  The patterns of productmap anchor on the suffix.               *)

S1 == <<"wind", ".output (MW)">>
D1 == <<"homes", ".input (MW)">>
U1 == <<"deficit", "">>

\* the keys in the lexicographic order of their text
KeyOrder == <<U1, D1, S1>>

Nodes == <<"N1", "N2">>

\* the group a column label is mapped to by cols.replace(productmap, regex=True):
\* a label matching neither pattern keeps its own value
ProductOf(key) ==
    IF key[2] = ".output (MW)" THEN <<"supply">>
    ELSE IF key[2] = ".input (MW)" THEN <<"demand">>
    ELSE key

-----------------------------------------------------------------------------
(* Arguments, exceptions, warnings *)

None == [kind |-> "none", val |-> <<>>]
StrArg(s) == [kind |-> "str", val |-> s]
IntArg(i) == [kind |-> "int", val |-> i]
ListArg(l) == [kind |-> "list", val |-> l]

NoExc == [type |-> "none", msg |-> "", args |-> <<>>]
Exc(type, msg, args) == [type |-> type, msg |-> msg, args |-> args]

Warning(msg, arg) == [msg |-> msg, arg |-> arg]

NoTable ==
    [index |-> <<>>, columns |-> <<>>, values |-> <<>>, nacols |-> {},
     obj |-> "none"]

\* iterable_to_str / mapped_floats_to_str: the message lists its items in order
IterableToStr(items) == items

-----------------------------------------------------------------------------
(* validate_hourly_curves_balance *)

\* curves.groupby(level=0, axis=1).sum() after the columns were mapped to their
\* product group: the labels of the groups
GroupLabels(t) == {ProductOf(t.columns[j]) : j \in 1..Len(t.columns)}

\* the aggregated column of one group: per row, the sum of the member columns
GroupSum(t, group) ==
    [i \in 1..Len(t.index) |->
        SumSeq([j \in 1..Len(t.columns) |->
            IF ProductOf(t.columns[j]) = group THEN t.values[i][j] ELSE 0])]

\* balance = curves["supply"] - curves["demand"]
Balance(t) ==
    [i \in 1..Len(t.index) |->
        GroupSum(t, <<"supply">>)[i] - GroupSum(t, <<"demand">>)[i]]

\* any(balance.round(precision) != 0)
HasDeficit(t, precision) ==
    \E i \in 1..Len(t.index) : Round(Balance(t)[i], precision, 2) # 0

\* variant: no copy is taken, the local name keeps referring to the frame of
\* the caller
SameFrame(obj) == obj

\* curves.copy(): the name of the new frame object that holds the copy
Copy(obj) == "copy of " \o obj

\* the frame objects after the validator's local name was rebound to a copy and
\* the column labels of the frame it refers to were replaced, in place, by
\* their product groups; "argument" is the frame the caller passed
FramesAfterMapping(t) ==
    LET local == Copy("argument")
        frames == [obj \in {"argument", local} |-> t]
    IN  [frames EXCEPT ![local].columns =
            [j \in 1..Len(t.columns) |-> ProductOf(t.columns[j])]]

\* the caller's frame once validate_hourly_curves_balance is over, whether it
\* returned or raised: everything after the mapping works on new objects
ArgumentAfterBalance(t) == FramesAfterMapping(t)["argument"]

validate_hourly_curves_balance(t, precision, errors) ==
    IF <<"supply">> \notin GroupLabels(t)
    THEN [exc |-> Exc("KeyError", "supply", <<>>), log |-> <<>>]
    ELSE IF <<"demand">> \notin GroupLabels(t)
    THEN [exc |-> Exc("KeyError", "demand", <<>>), log |-> <<>>]
    ELSE IF HasDeficit(t, precision)
    THEN [exc |-> IF errors = "raise"
                  THEN Exc("BalanceError", "Deficits in curves", <<>>)
                  ELSE NoExc,
          log |-> IF errors = "warn"
                  THEN <<Warning("Deficits in curves", <<>>)>>
                  ELSE <<>>]
    ELSE [exc |-> NoExc, log |-> <<>>]

-----------------------------------------------------------------------------
(* validate_regionalisation *)

\* a.columns[~a.columns.isin(b.columns)]
ColumnsNotIn(a, b) == SelectSeq(a.columns, LAMBDA k : k \notin Range(b.columns))

\* reg.sum(axis=0).round(prec): per column, the rounded sum over the rows
ColumnSum(r, j) == SumSeq([i \in 1..Len(r.index) |-> r.values[i][j]])

RoundedSums(r, prec) ==
    [j \in 1..Len(r.columns) |-> Round(ColumnSum(r, j), prec, 4)]

\* variant: compares the sums with 1 before they are rounded
ChecksumErrorsUnrounded(r, prec) ==
    LET bad == SelectSeq([j \in 1..Len(r.columns) |-> j],
                         LAMBDA j : ColumnSum(r, j) # Pow10(4))
    IN  [n \in 1..Len(bad) |->
            <<r.columns[bad[n]], Round(ColumnSum(r, bad[n]), prec, 4)>>]

\* sums[sums != 1], as <<key, rounded sum>> pairs in column order
ChecksumErrors(r, prec) ==
    LET sums == RoundedSums(r, prec)
        bad == SelectSeq([j \in 1..Len(r.columns) |-> j],
                         LAMBDA j : sums[j] # Pow10(4))
    IN  [n \in 1..Len(bad) |-> <<r.columns[bad[n]], sums[bad[n]]>>]

\* variant: a missing key is handled like an unused one (warned about in warn mode)
validate_regionalisation_missing_warns(t, r, prec, errors) ==
    LET missing_reg == ColumnsNotIn(t, r)
        checksum_errors == ChecksumErrors(r, prec)
        log0 == [n \in 1..Len(missing_reg) |->
                    Warning("Missing key in regionalisation", missing_reg[n])]
        log2 == [n \in 1..Len(checksum_errors) |->
                    Warning("Regionalisation key does not sum to 1", checksum_errors[n])]
    IN  IF errors = "raise" /\ missing_reg # <<>>
        THEN [exc |-> Exc("KeyError", "Missing key(s) in regionalisation",
                          IterableToStr(missing_reg)),
              log |-> <<>>]
        ELSE IF errors = "raise" /\ checksum_errors # <<>>
        THEN [exc |-> Exc("ValueError", "Regionalisation key(s) do not sum to 1",
                          IterableToStr(checksum_errors)),
              log |-> <<>>]
        ELSE [exc |-> NoExc, log |-> log0 \o log2]

validate_regionalisation(t, r, prec, errors) ==
    LET missing_reg == ColumnsNotIn(t, r)
        superfluos_reg == ColumnsNotIn(r, t)
        checksum_errors == ChecksumErrors(r, prec)
        log1 == IF errors = "warn"
                THEN [n \in 1..Len(superfluos_reg) |->
                        Warning("Unused key in regionalisation", superfluos_reg[n])]
                ELSE <<>>
        log2 == IF errors = "warn"
                THEN [n \in 1..Len(checksum_errors) |->
                        Warning("Regionalisation key does not sum to 1",
                                checksum_errors[n])]
                ELSE <<>>
    IN  IF missing_reg # <<>>
        THEN [exc |-> Exc("KeyError", "Missing key(s) in regionalisation",
                          IterableToStr(missing_reg)),
              log |-> <<>>]
        ELSE IF superfluos_reg # <<>> /\ errors = "raise"
        THEN [exc |-> Exc("KeyError", "Unused key(s) in regionalisation",
                          IterableToStr(superfluos_reg)),
              log |-> <<>>]
        ELSE IF checksum_errors # <<>> /\ errors = "raise"
        THEN [exc |-> Exc("ValueError", "Regionalisation key(s) do not sum to 1",
                          IterableToStr(checksum_errors)),
              log |-> log1]
        ELSE [exc |-> NoExc, log |-> log1 \o log2]

-----------------------------------------------------------------------------
(* Label and position based selection *)

\* a scalar argument promoted to a one-element list
AsList(arg) == IF arg.kind = "list" THEN arg.val ELSE <<arg.val>>

\* the labels of `labels` that are no label of `have`
NotFound(labels, have) == SelectSeq(labels, LAMBDA k : k \notin Range(have))

\* r.loc[labels, :] for labels that are all present
LocRows(r, labels) ==
    [r EXCEPT !.index = labels,
              !.values = [n \in 1..Len(labels) |-> r.values[Pos(r.index, labels[n])]]]

\* t.loc[:, keys] for keys that are all present
LocCols(t, keys) ==
    [t EXCEPT !.columns = keys,
              !.values = [i \in 1..Len(t.index) |->
                            [n \in 1..Len(keys) |-> t.values[i][Pos(t.columns, keys[n])]]]]

\* r.loc[label, :] : the row of one label as a Series over the columns
LocRow(r, label) ==
    [index |-> r.columns, values |-> r.values[Pos(r.index, label)]]

\* s.loc[keys] of a Series, for keys that are all present
LocSeries(s, keys) ==
    [index |-> keys, values |-> [n \in 1..Len(keys) |-> s.values[Pos(s.index, keys[n])]]]

\* iloc takes positions: 0-based, a negative one counts from the end
InBounds(t, p) == -Len(t.index) <= p /\ p < Len(t.index)

RowOfPosition(t, p) == IF p >= 0 THEN p + 1 ELSE Len(t.index) + p + 1

\* t.iloc[positions, :] for positions that are all in bounds
ILocRows(t, positions) ==
    [t EXCEPT !.index = [n \in 1..Len(positions) |->
                            t.index[RowOfPosition(t, positions[n])]],
              !.values = [n \in 1..Len(positions) |->
                            t.values[RowOfPosition(t, positions[n])]]]

\* Index.union of two label sequences: the labels of either, sorted
SortedUnion(a, b) == SelectSeq(KeyOrder, LAMBDA k : k \in Range(a) \cup Range(b))

-----------------------------------------------------------------------------
(* The two computations *)

\* DataFrame.dot aligns the columns of the left with the index of the right and
\* refuses operands whose labels differ.  dot and mul build a new frame object
\* (obj), whatever frames they were given
Aligned(t, r) ==
    LET common == Range(t.columns) \cup Range(r.columns)
    IN  ~ (Cardinality(common) > Len(t.columns) \/ Cardinality(common) > Len(r.columns))

\* variant: multiplies by position, without aligning the sector labels
DotByPosition(t, r) ==
    [index |-> t.index,
     columns |-> r.index,
     values |-> [i \in 1..Len(t.index) |->
                   [n \in 1..Len(r.index) |->
                      SumSeq([j \in 1..Len(t.columns) |->
                         t.values[i][j] * r.values[n][j]])]],
     nacols |-> {},
     obj |-> "dot"]

\* curves.dot(reg.T): hours x nodes, each cell the sum over the sectors
Dot(t, r) ==
    [index |-> t.index,
     columns |-> r.index,
     values |-> [i \in 1..Len(t.index) |->
                   [n \in 1..Len(r.index) |->
                      SumSeq([j \in 1..Len(t.columns) |->
                         t.values[i][j] * r.values[n][Pos(r.columns, t.columns[j])]])]],
     nacols |-> {},
     obj |-> "dot"]

\* curves.mul(nreg): the columns of the frame are aligned with the index of the
\* Series by an outer join; a column missing on either side is all NaN
Mul(t, s) ==
    LET cols == IF t.columns = s.index THEN t.columns
                ELSE SortedUnion(t.columns, s.index)
        both == Range(t.columns) \cap Range(s.index)
    IN  [index |-> t.index,
         columns |-> cols,
         values |-> [i \in 1..Len(t.index) |->
                       [n \in 1..Len(cols) |->
                          IF cols[n] \in both
                          THEN t.values[i][Pos(t.columns, cols[n])]
                               * s.values[Pos(s.index, cols[n])]
                          ELSE 0]],
         nacols |-> Range(cols) \ both,
         obj |-> "mul"]

Raise(exc, lg) == [exc |-> exc, log |-> lg, result |-> NoTable]
Return(table, lg) == [exc |-> NoExc, log |-> lg, result |-> table]

\* the hours subset shared by both entry points (curves.iloc[hours, :])
OutOfBounds(t, hours) ==
    hours.kind # "none" /\ \E n \in 1..Len(AsList(hours)) : ~InBounds(t, AsList(hours)[n])

SubsetHours(t, hours) == IF hours.kind = "none" THEN t ELSE ILocRows(t, AsList(hours))

-----------------------------------------------------------------------------
(* regionalise_curves *)

\* variant: the warning is decided after a string was promoted to a list
NodeWarningAfterPromotion(node) ==
    IF node.kind \in {"str", "list"}
    THEN <<Warning("returning dot product for subset of multiple nodes", <<>>)>>
    ELSE <<>>

\* the warning for subsetting multiple items, decided before a string is promoted
NodeWarning(node) ==
    IF node.kind = "list"
    THEN <<Warning("returning dot product for subset of multiple nodes", <<>>)>>
    ELSE <<>>

SectorWarning(sector) ==
    IF sector.kind = "list"
    THEN <<Warning("returning dot product for subset of multiple sectors", <<>>)>>
    ELSE <<>>

regionalise_curves(t, r, node, sector, hours) ==
    LET v1 == validate_hourly_curves_balance(t, DefaultPrecision, "raise")
        v2 == validate_regionalisation(t, r, DefaultPrec, "warn")
        lg2 == v1.log \o v2.log
        lg3 == lg2 \o NodeWarning(node)
        reg1 == IF node.kind = "none" THEN r ELSE LocRows(r, AsList(node))
        lg4 == lg3 \o SectorWarning(sector)
        curves2 == IF sector.kind = "none" THEN t ELSE LocCols(t, AsList(sector))
        reg2 == IF sector.kind = "none" THEN reg1 ELSE LocCols(reg1, AsList(sector))
        curves3 == SubsetHours(curves2, hours)
    IN  IF v1.exc # NoExc THEN Raise(v1.exc, v1.log)
        ELSE IF v2.exc # NoExc THEN Raise(v2.exc, lg2)
        ELSE IF node.kind # "none" /\ NotFound(AsList(node), r.index) # <<>>
        THEN Raise(Exc("KeyError", "not in index", NotFound(AsList(node), r.index)), lg3)
        ELSE IF sector.kind # "none" /\ NotFound(AsList(sector), t.columns) # <<>>
        THEN Raise(Exc("KeyError", "not in index", NotFound(AsList(sector), t.columns)), lg4)
        ELSE IF sector.kind # "none" /\ NotFound(AsList(sector), r.columns) # <<>>
        THEN Raise(Exc("KeyError", "not in index", NotFound(AsList(sector), r.columns)), lg4)
        ELSE IF OutOfBounds(curves2, hours)
        THEN Raise(Exc("IndexError", "positional indexers are out-of-bounds", <<>>), lg4)
        ELSE IF ~Aligned(curves3, reg2)
        THEN Raise(Exc("ValueError", "matrices are not aligned", <<>>), lg4)
        ELSE Return(Dot(curves3, reg2), lg4)

-----------------------------------------------------------------------------
(* regionalise_node *)

RECURSIVE JoinRepr(_)
JoinRepr(l) ==
    IF l = <<>> THEN ""
    ELSE "'" \o l[1] \o "'" \o (IF Len(l) > 1 THEN ", " ELSE "") \o JoinRepr(Tail(l))

\* str(node) of an argument that is not a string: the text of the list
ToStr(arg) == IF arg.kind = "str" THEN arg.val ELSE "[" \o JoinRepr(arg.val) \o "]"

regionalise_node(t, r, node, sector, hours) ==
    LET v1 == validate_hourly_curves_balance(t, DefaultPrecision, "warn")
        v2 == validate_regionalisation(t, r, DefaultPrec, "warn")
        lg2 == v1.log \o v2.log
        label == ToStr(node)
        nreg == LocRow(r, label)
        curves2 == IF sector.kind = "none" THEN t ELSE LocCols(t, AsList(sector))
        nreg2 == IF sector.kind = "none" THEN nreg ELSE LocSeries(nreg, AsList(sector))
        curves3 == SubsetHours(curves2, hours)
    IN  IF v1.exc # NoExc THEN Raise(v1.exc, v1.log)
        ELSE IF v2.exc # NoExc THEN Raise(v2.exc, lg2)
        ELSE IF label \notin Range(r.index)
        THEN Raise(Exc("KeyError", "not in index", <<label>>), lg2)
        ELSE IF sector.kind # "none" /\ NotFound(AsList(sector), t.columns) # <<>>
        THEN Raise(Exc("KeyError", "not in index", NotFound(AsList(sector), t.columns)), lg2)
        ELSE IF sector.kind # "none" /\ NotFound(AsList(sector), r.columns) # <<>>
        THEN Raise(Exc("KeyError", "not in index", NotFound(AsList(sector), r.columns)), lg2)
        ELSE IF OutOfBounds(curves2, hours)
        THEN Raise(Exc("IndexError", "positional indexers are out-of-bounds", <<>>), lg2)
        ELSE Return(Mul(curves3, nreg2), lg2)

-----------------------------------------------------------------------------
(* The caller's tables and arguments *)

\* hundredths of a MW a cell of a curve column may hold
CurveVals(key) ==
    IF key = S1 THEN {500, 504}
    ELSE IF key = D1 THEN {0, 500}
    ELSE {300}

\* ten-thousandths a cell of a weight column may hold
WeightVals(key) == IF key = U1 THEN {5000} ELSE {5000, 5004}

CurveColumnCases == {<<S1, D1>>, <<S1>>, <<D1>>, <<S1, D1, U1>>}

RegColumnCases == {<<S1, D1>>, <<D1, S1>>, <<S1>>, <<S1, D1, U1>>}

AllVals == UNION {CurveVals(k) \cup WeightVals(k) : k \in Range(KeyOrder)}

\* the rows over the columns cols whose cells are curve values of their column
CurveRows(cols) ==
    {row \in [1..Len(cols) -> AllVals] :
        \A j \in 1..Len(cols) : row[j] \in CurveVals(cols[j])}

\* the rows over the columns cols whose cells are weights of their column
WeightRows(cols) ==
    {row \in [1..Len(cols) -> AllVals] :
        \A j \in 1..Len(cols) : row[j] \in WeightVals(cols[j])}

CurveTables ==
    UNION {{[index |-> [i \in 1..NumHours |-> i - 1], columns |-> cols, values |-> v] :
                v \in [1..NumHours -> CurveRows(cols)]} :
           cols \in CurveColumnCases}

RegTables ==
    UNION {{[index |-> Nodes, columns |-> cols, values |-> v] :
                v \in [1..Len(Nodes) -> WeightRows(cols)]} :
           cols \in RegColumnCases}

ErrorHandling == {"warn", "raise"}

PrecisionArgs == {DefaultPrecision, DefaultPrecision + 1}

PrecArgs == {DefaultPrec, DefaultPrec + 1}

NodeArgs == {None, StrArg("N2"), ListArg(<<"N2", "N1">>)}

NodeKeyArgs == {StrArg("N1"), StrArg("N3"), ListArg(<<"N1", "N2">>)}

SectorArgs == {None, StrArg(S1), ListArg(<<D1, S1>>)}

HourArgs == {None, IntArg(-1), ListArg(<<1, 0>>), IntArg(NumHours)}

-----------------------------------------------------------------------------
(* pyetm.client: custom curves of a scenario *)

\* the custom curve keys the server knows for the scenario, in the order of
\* its overview
CurveKeys == <<"interconnector_1_price", "weather/solar_pv_profile_1">>

\* what the server holds under a key without an attached curve
Unattached == "unattached"

\* contents of an uploaded curve
Profiles == {"flat", "peak"}

\* the length a custom curve must have
HoursPerYear == 8760

\* functools.lru_cache(maxsize=1)
MaxSize == 1

\* a Series to upload
Series(profile, len) == [profile |-> profile, len |-> len]

\* get_custom_curve_keys(): the keys with an attached curve
AttachedKeys(srv) == SelectSeq(CurveKeys, LAMBDA k : srv[k] # Unattached)

\* lru_cache: a call with arguments seen before is answered from the cache
CacheHit(cache, args) == \E n \in 1..Len(cache) : cache[n].args = args

CacheGet(cache, args) ==
    cache[CHOOSE n \in 1..Len(cache) : cache[n].args = args].result

\* lru_cache: a computed result is stored and the oldest entries beyond
\* maxsize are dropped
CachePut(cache, args, result) ==
    LET all == Append(cache, [args |-> args, result |-> result])
    IN  IF Len(all) > MaxSize
        THEN SubSeq(all, Len(all) - MaxSize + 1, Len(all))
        ELSE all

\* the caches of a client, by the method they decorate
Caches(hc, cc) == [get_scenario_header |-> hc, get_custom_curves |-> cc]

\* _reset_cache: self._get_scenario_header.cache_clear()
reset_cache(caches) == [caches EXCEPT !.get_scenario_header = <<>>]

\* the frame of the curves of `keys`: per column its key and its content
Frame(srv, keys) == [n \in 1..Len(keys) |-> <<keys[n], srv[keys[n]]>>]

\* the body of get_custom_curves: the attached curves are fetched and the
\* requested ones (all of them without keys) are returned
get_custom_curves(srv, keys) ==
    LET attached == AttachedKeys(srv)
        subset == IF keys = <<>> THEN attached
                  ELSE SelectSeq(keys, LAMBDA k : k \in Range(attached))
    IN  Frame(srv, subset)

\* what a modifying method leaves: the server, the caches, the error raised
\* and the warnings logged
Done(srv, caches, exc, lg) ==
    [server |-> srv, caches |-> caches, exc |-> exc, log |-> lg]

\* __upload_ccurve: the key is validated, the curve checked and sent
upload_ccurve(srv, curve, key) ==
    IF key \notin Range(CurveKeys)
    THEN [server |-> srv, exc |-> Exc("KeyError", "is not a valid custom curve key", <<key>>)]
    ELSE IF curve.len # HoursPerYear
    THEN [server |-> srv, exc |-> Exc("ValueError", "curve must contain 8760 entries", <<>>)]
    ELSE [server |-> [srv EXCEPT ![key] = curve.profile], exc |-> NoExc]

upload_custom_curve(srv, caches, curve, key) ==
    LET up == upload_ccurve(srv, curve, key)
    IN  IF up.exc # NoExc THEN Done(up.server, caches, up.exc, <<>>)
        ELSE Done(up.server, reset_cache(caches), NoExc, <<>>)

\* the loop of upload_custom_curves over the columns cols[n..] of the frame:
\* it ends at the first upload that raises
RECURSIVE UploadFrom(_, _, _)
UploadFrom(srv, cols, n) ==
    IF n > Len(cols) THEN [server |-> srv, exc |-> NoExc]
    ELSE LET up == upload_ccurve(srv, cols[n][2], cols[n][1])
         IN  IF up.exc # NoExc THEN up ELSE UploadFrom(up.server, cols, n + 1)

upload_custom_curves(srv, caches, ccurves) ==
    LET up == UploadFrom(srv, ccurves, 1)
    IN  IF up.exc # NoExc THEN Done(up.server, caches, up.exc, <<>>)
        ELSE Done(up.server, reset_cache(caches), NoExc, <<>>)

\* __delete_ccurve in a loop over keys
RECURSIVE DeleteAll(_, _)
DeleteAll(srv, keys) ==
    IF keys = <<>> THEN srv
    ELSE DeleteAll([srv EXCEPT ![Head(keys)] = Unattached], Tail(keys))

delete_custom_curve(srv, caches, key) ==
    IF key \in Range(AttachedKeys(srv))
    THEN Done(DeleteAll(srv, <<key>>), reset_cache(caches), NoExc, <<>>)
    ELSE Done(srv, caches, NoExc,
              <<Warning("attempted to remove, while curve already unattached", key)>>)

delete_custom_curves(srv, caches, keys) ==
    LET attached == AttachedKeys(srv)
        subset == IF keys = <<>> THEN attached
                  ELSE SelectSeq(keys, LAMBDA k : k \in Range(attached))
    IN  IF attached # <<>> /\ subset # <<>>
        THEN Done(DeleteAll(srv, subset), reset_cache(caches), NoExc, <<>>)
        ELSE Done(srv, caches, NoExc,
                  <<Warning("attempted to remove custom curves, without any (specified) custom curves attached", <<>>)>>)

-----------------------------------------------------------------------------
(* State machine: the caller holds two tables and makes one call *)

NoCall == [op |-> "none", node |-> None, sector |-> None, hours |-> None,
           errors |-> "", prec |-> 0]

Pending == [kind |-> "pending", exc |-> NoExc, result |-> NoTable]

\* what the caller observes of a finished call
Observed(r) ==
    [kind |-> IF r.exc = NoExc THEN "return" ELSE "raise",
     exc |-> r.exc,
     result |-> r.result]

\* the client before its first call
NoClientCall ==
    [op |-> "none", args |-> <<>>, kind |-> "none", exc |-> NoExc,
     cached |-> FALSE, result |-> <<>>, failed |-> FALSE]

\* a client that made no call yet, for a scenario without custom curves
ClientIdle ==
    /\ server = [k \in Range(CurveKeys) |-> Unattached]
    /\ header_cache = <<>>
    /\ ccurves_cache = <<>>
    /\ last = NoClientCall

Init ==
    /\ curves \in CurveTables
    /\ reg \in RegTables
    /\ call = NoCall
    /\ outcome = Pending
    /\ log = <<>>
    /\ ClientIdle

Call_validate_hourly_curves_balance ==
    /\ call.op = "none"
    /\ \E precision \in PrecisionArgs, errors \in ErrorHandling :
         LET r == validate_hourly_curves_balance(curves, precision, errors)
         IN  /\ call' = [NoCall EXCEPT !.op = "validate_hourly_curves_balance",
                                       !.errors = errors, !.prec = precision]
             /\ outcome' = Observed([exc |-> r.exc, result |-> NoTable])
             /\ log' = r.log
    /\ curves' = ArgumentAfterBalance(curves)
    /\ UNCHANGED <<reg, clientvars>>

Call_validate_regionalisation ==
    /\ call.op = "none"
    /\ \E prec \in PrecArgs, errors \in ErrorHandling :
         LET r == validate_regionalisation(curves, reg, prec, errors)
         IN  /\ call' = [NoCall EXCEPT !.op = "validate_regionalisation",
                                       !.errors = errors, !.prec = prec]
             /\ outcome' = Observed([exc |-> r.exc, result |-> NoTable])
             /\ log' = r.log
    /\ UNCHANGED <<curves, reg, clientvars>>

Call_regionalise_curves ==
    /\ call.op = "none"
    /\ \E node \in NodeArgs, sector \in SectorArgs, hours \in HourArgs :
         LET r == regionalise_curves(curves, reg, node, sector, hours)
         IN  /\ call' = [NoCall EXCEPT !.op = "regionalise_curves", !.node = node,
                                       !.sector = sector, !.hours = hours]
             /\ outcome' = Observed(r)
             /\ log' = r.log
    /\ curves' = ArgumentAfterBalance(curves)
    /\ UNCHANGED <<reg, clientvars>>

Call_regionalise_node ==
    /\ call.op = "none"
    /\ \E node \in NodeKeyArgs, sector \in SectorArgs, hours \in HourArgs :
         LET r == regionalise_node(curves, reg, node, sector, hours)
         IN  /\ call' = [NoCall EXCEPT !.op = "regionalise_node", !.node = node,
                                       !.sector = sector, !.hours = hours]
             /\ outcome' = Observed(r)
             /\ log' = r.log
    /\ curves' = ArgumentAfterBalance(curves)
    /\ UNCHANGED <<reg, clientvars>>

Next ==
    \/ Call_validate_hourly_curves_balance
    \/ Call_validate_regionalisation
    \/ Call_regionalise_curves
    \/ Call_regionalise_node

Spec == Init /\ [][Next]_vars

\* The same calls on curves whose caller-supplied index counts the hours from
\* 1 (row labels 1..n instead of 0..n-1), with both tables over the two
\* classified keys
ShiftedCurveTables ==
    {[t EXCEPT !.index = [i \in 1..NumHours |-> i]] :
        t \in {c \in CurveTables : c.columns = <<S1, D1>>}}

InitShifted ==
    /\ curves \in ShiftedCurveTables
    /\ reg \in {r \in RegTables : r.columns = <<S1, D1>>}
    /\ call = NoCall
    /\ outcome = Pending
    /\ log = <<>>
    /\ ClientIdle

SpecShifted == InitShifted /\ [][Next]_vars

-----------------------------------------------------------------------------
(* State machine of the client: any sequence of calls on one scenario *)

UnknownKey == "unknown_key"

KeyArgs == Range(CurveKeys) \cup {UnknownKey}

SeriesArgs ==
    {Series(p, HoursPerYear) : p \in Profiles} \cup {Series("flat", 24)}

\* frames to upload: the columns of a frame, each a key with its Series
FrameArgs ==
    {<<<<CurveKeys[1], Series("flat", HoursPerYear)>>,
       <<CurveKeys[2], Series("peak", HoursPerYear)>>>>,
     <<<<CurveKeys[2], Series("flat", HoursPerYear)>>>>,
     <<<<CurveKeys[1], Series("peak", HoursPerYear)>>,
       <<UnknownKey, Series("peak", HoursPerYear)>>>>}

\* keys arguments (hashable tuples); the empty one is a call without keys
KeysArgs == {<<>>, <<CurveKeys[1]>>}

\* the scenario header the server returns
Header == "header"

InitClient ==
    /\ curves = NoTable
    /\ reg = NoTable
    /\ call = NoCall
    /\ outcome = Pending
    /\ log = <<>>
    /\ server \in [Range(CurveKeys) -> Profiles \cup {Unattached}]
    /\ header_cache = <<>>
    /\ ccurves_cache = <<>>
    /\ last = NoClientCall

\* the state after a modifying method: r is what the method left
Modified(op, args, r) ==
    /\ server' = r.server
    /\ header_cache' = r.caches.get_scenario_header
    /\ ccurves_cache' = r.caches.get_custom_curves
    /\ log' = r.log
    /\ last' = [op |-> op, args |-> args,
                kind |-> IF r.exc = NoExc THEN "return" ELSE "raise",
                exc |-> r.exc, cached |-> FALSE, result |-> <<>>,
                failed |-> last.failed \/ r.exc # NoExc]

Call_upload_custom_curve ==
    \E curve \in SeriesArgs, key \in KeyArgs :
        /\ Modified("upload_custom_curve", <<key, curve>>,
               upload_custom_curve(server, Caches(header_cache, ccurves_cache), curve, key))
        /\ UNCHANGED <<curves, reg, call, outcome>>

Call_upload_custom_curves ==
    \E ccurves \in FrameArgs :
        /\ Modified("upload_custom_curves", ccurves,
               upload_custom_curves(server, Caches(header_cache, ccurves_cache), ccurves))
        /\ UNCHANGED <<curves, reg, call, outcome>>

Call_delete_custom_curve ==
    \E key \in Range(CurveKeys) :
        /\ Modified("delete_custom_curve", <<key>>,
               delete_custom_curve(server, Caches(header_cache, ccurves_cache), key))
        /\ UNCHANGED <<curves, reg, call, outcome>>

Call_delete_custom_curves ==
    \E keys \in KeysArgs :
        /\ Modified("delete_custom_curves", keys,
               delete_custom_curves(server, Caches(header_cache, ccurves_cache), keys))
        /\ UNCHANGED <<curves, reg, call, outcome>>

\* custom_curves and get_custom_curves(keys), behind lru_cache
Call_get_custom_curves ==
    \E keys \in KeysArgs :
        LET hit == CacheHit(ccurves_cache, keys)
            result == IF hit THEN CacheGet(ccurves_cache, keys)
                      ELSE get_custom_curves(server, keys)
        IN  /\ ccurves_cache' = IF hit THEN ccurves_cache
                                ELSE CachePut(ccurves_cache, keys, result)
            /\ last' = [op |-> "get_custom_curves", args |-> keys,
                        kind |-> "return", exc |-> NoExc, cached |-> hit,
                        result |-> result, failed |-> last.failed]
            /\ log' = <<>>
            /\ UNCHANGED <<curves, reg, call, outcome, server, header_cache>>

\* _scenario_header and _get_scenario_header(), behind lru_cache
Call_get_scenario_header ==
    LET hit == CacheHit(header_cache, <<>>)
        result == IF hit THEN CacheGet(header_cache, <<>>) ELSE Header
    IN  /\ header_cache' = IF hit THEN header_cache
                           ELSE CachePut(header_cache, <<>>, result)
        /\ last' = [op |-> "get_scenario_header", args |-> <<>>,
                    kind |-> "return", exc |-> NoExc, cached |-> hit,
                    result |-> <<>>, failed |-> last.failed]
        /\ log' = <<>>
        /\ UNCHANGED <<curves, reg, call, outcome, server, ccurves_cache>>

NextClient ==
    \/ Call_upload_custom_curve
    \/ Call_upload_custom_curves
    \/ Call_delete_custom_curve
    \/ Call_delete_custom_curves
    \/ Call_get_custom_curves
    \/ Call_get_scenario_header

SpecClient == InitClient /\ [][NextClient]_vars

-----------------------------------------------------------------------------
(* Vocabulary of the properties *)

Called(op) == call.op = op

Returned == outcome.kind = "return"

RaisedType(type) == outcome.kind = "raise" /\ outcome.exc.type = type

NoResult == outcome.kind = "raise" /\ outcome.result = NoTable

HasSupply == <<"supply">> \in GroupLabels(curves)

HasDemand == <<"demand">> \in GroupLabels(curves)

\* some hour's supply minus demand is non-zero after rounding to the default precision
Unbalanced == HasDeficit(curves, DefaultPrecision)

MissingKeys == ColumnsNotIn(curves, reg)

ExtraKeys == ColumnsNotIn(reg, curves)

Unsubsetted == call.node = None /\ call.sector = None /\ call.hours = None

RaisedMissingKeys ==
    /\ RaisedType("KeyError")
    /\ outcome.exc.msg = "Missing key(s) in regionalisation"
    /\ outcome.exc.args = MissingKeys

RaisedNoGroup(group) ==
    /\ RaisedType("KeyError")
    /\ outcome.exc.msg = group

-----------------------------------------------------------------------------
(* C1: balance gate *)

\* C1: whenever some hour of curves has supply minus demand non-zero after
\* rounding, regionalise_curves raises BalanceError and returns no result,
\* whatever reg, node, sector and hours are.
C1_BalanceGate ==
    (Called("regionalise_curves") /\ Unbalanced)
        => (RaisedType("BalanceError") /\ NoResult)

\* The gate on the tables that have a supply and a demand column: there the
\* unbalanced ones, and only those, end in BalanceError.
C1_GateWhenClassified ==
    (Called("regionalise_curves") /\ HasSupply /\ HasDemand)
        => (Unbalanced <=> (RaisedType("BalanceError") /\ NoResult))

-----------------------------------------------------------------------------
(* C2: a curves key that reg lacks is fatal *)

\* C2 as claimed: with a curves column absent from reg, every call of
\* regionalise_curves and of regionalise_node ends in the KeyError naming the
\* missing keys, whatever else holds of the inputs.  Stated on the curves that
\* have a supply and a demand column, where the balance can be computed.
C2_MissingKeyAlwaysKeyError ==
    (/\ call.op \in {"regionalise_curves", "regionalise_node"}
     /\ MissingKeys # <<>>
     /\ HasSupply /\ HasDemand)
        => RaisedMissingKeys

\* C2 amended: with a curves column absent from reg, every call of
\* regionalise_curves and of regionalise_node raises and returns no result; the
\* error is the KeyError naming the missing keys unless the balance validator,
\* which runs first, has raised: KeyError for an absent supply or demand group
\* and, in regionalise_curves only, BalanceError for unbalanced curves.
C2_MissingKeyFatal ==
    (call.op \in {"regionalise_curves", "regionalise_node"} /\ MissingKeys # <<>>)
        => /\ NoResult
           /\ IF ~HasSupply THEN RaisedNoGroup("supply")
              ELSE IF ~HasDemand THEN RaisedNoGroup("demand")
              ELSE IF Called("regionalise_curves") /\ Unbalanced
                   THEN RaisedType("BalanceError")
              ELSE RaisedMissingKeys

\* a regionalise_node call on unbalanced curves that ends in the missing-key error
C2_Witness ==
    /\ Called("regionalise_node")
    /\ MissingKeys # <<>>
    /\ Unbalanced
    /\ RaisedMissingKeys
    /\ outcome.result = NoTable

-----------------------------------------------------------------------------
(* Weight sums and results, as the properties speak of them *)

Abs(x) == IF x < 0 THEN -x ELSE x

\* the sum over the node rows of the reg column labelled key
WeightSum(key) ==
    SumSeq([n \in 1..Len(reg.index) |-> reg.values[n][Pos(reg.columns, key)]])

\* a sum of weights (4 decimals) is 1 when rounded to prec decimals: it lies
\* within half a unit of the last kept decimal, a tie going to the even side
RoundsToOne(x, prec) ==
    LET q == Pow10(4 - prec)
        d == 2 * Abs(x - Pow10(4))
    IN  d < q \/ (d = q /\ (Pow10(4) \div q) % 2 = 0)

\* the reg columns that do not sum to 1 at prec decimals, in column order
Offending(prec) ==
    SelectSeq(reg.columns, LAMBDA k : ~RoundsToOne(WeightSum(k), prec))

RegNormalized == Offending(DefaultPrec) = <<>>

\* the reported pair of an offending key: the key with its rounded sum
Reported(prec) ==
    [n \in 1..Len(Offending(prec)) |->
        <<Offending(prec)[n], Round(WeightSum(Offending(prec)[n]), prec, 4)>>]

NormalizationWarnings ==
    SelectSeq(log, LAMBDA w : w.msg = "Regionalisation key does not sum to 1")

UnusedKeyWarnings ==
    SelectSeq(log, LAMBDA w : w.msg = "Unused key in regionalisation")

AmbiguityWarnings ==
    SelectSeq(log, LAMBDA w : w.msg \in
        {"returning dot product for subset of multiple nodes",
         "returning dot product for subset of multiple sectors"})

\* balanced curves with both product groups, and a reg with exactly the keys of
\* curves whose columns sum to 1
ValidInputs ==
    /\ HasSupply /\ HasDemand /\ ~Unbalanced
    /\ MissingKeys = <<>> /\ ExtraKeys = <<>>
    /\ RegNormalized

\* sum over the sectors of curves[hour i, sector] * reg[node, sector]
Projection(i, node) ==
    SumSeq([j \in 1..Len(curves.columns) |->
        curves.values[i][j]
        * reg.values[Pos(reg.index, node)][Pos(reg.columns, curves.columns[j])]])

\* the cell of the result at row i in the column labelled k
ResultCell(i, k) == outcome.result.values[i][Pos(outcome.result.columns, k)]

-----------------------------------------------------------------------------
(* C3: mass conservation *)

\* the result summed over its node columns at row i (6 decimals)
NodeSumAt(i) == SumSeq(outcome.result.values[i])

\* curves summed over its sector columns at row i, brought to 6 decimals
AggregateAt(i) == SumSeq(curves.values[i]) * Pow10(4)

\* equal within the relative tolerance 1e-5 of a floating-point comparison
WithinTolerance(a, b) == 100000 * Abs(a - b) <= Abs(b)

ConservationCase ==
    /\ Called("regionalise_curves") /\ Unsubsetted /\ Returned
    /\ RegNormalized

\* C3 as claimed: for an unsubsetted regionalise_curves on balanced curves and
\* a reg whose columns sum to 1 within precision, at every hour the result
\* summed over the nodes equals curves summed over the sectors, within tolerance.
C3_MassConserved ==
    ConservationCase
        => \A i \in 1..Len(curves.index) : WithinTolerance(NodeSumAt(i), AggregateAt(i))

\* C3 amended: in that case every cell is the sum over the sectors of
\* curves[hour, sector] * reg[node, sector], and at every hour the result summed
\* over the nodes differs from curves summed over the sectors by exactly the sum
\* over the sectors of curves[hour, sector] * (weight sum of the sector - 1):
\* nothing when the columns sum to 1 exactly, and at most half a unit of the
\* last checked decimal (0.0005) times the sum of the absolute curve values.
C3_MassConservedUpToWeightSums ==
    ConservationCase
        => /\ outcome.result.index = curves.index
           /\ outcome.result.columns = reg.index
           /\ \A i \in 1..Len(curves.index) :
                /\ \A n \in 1..Len(reg.index) :
                      outcome.result.values[i][n] = Projection(i, reg.index[n])
                /\ NodeSumAt(i) - AggregateAt(i)
                     = SumSeq([j \in 1..Len(curves.columns) |->
                          curves.values[i][j]
                          * (WeightSum(curves.columns[j]) - Pow10(4))])
                /\ 2 * Abs(NodeSumAt(i) - AggregateAt(i))
                     <= Pow10(4 - DefaultPrec)
                        * SumSeq([j \in 1..Len(curves.columns) |->
                                    Abs(curves.values[i][j])])

\* an unsubsetted result over a normalized reg whose node sum is not the aggregate
C3_Witness ==
    /\ ConservationCase
    /\ \E i \in 1..Len(curves.index) : NodeSumAt(i) # AggregateAt(i)

-----------------------------------------------------------------------------
(* C4: single-node profile *)

SingleNodeCase ==
    /\ Called("regionalise_node")
    /\ call.node.kind = "str" /\ call.node.val \in Range(reg.index)
    /\ call.sector = None /\ call.hours = None
    /\ Returned

\* the cell of column k at row i is curves[hour, sector] * reg[N, sector]
ScaledCell(i, k) ==
    ResultCell(i, k)
        = curves.values[i][Pos(curves.columns, k)]
          * reg.values[Pos(reg.index, call.node.val)][Pos(reg.columns, k)]

\* C4: the result of regionalise_node(curves, reg, node=N) for a row N of reg has
\* the hours and the sector columns of curves, and every cell equals
\* curves[hour, sector] * reg[N, sector]; the sector dimension is kept.
C4_SingleNodeProfile ==
    SingleNodeCase
        => /\ outcome.result.index = curves.index
           /\ Range(outcome.result.columns) = Range(curves.columns)
           /\ outcome.result.nacols = {}
           /\ \A i \in 1..Len(curves.index) :
                \A k \in Range(curves.columns) : ScaledCell(i, k)

\* What holds of every single-node result: the columns of curves are scaled by
\* the node's weights, and each reg column unused by curves adds an all-NaN column.
C4_ProfileOnCurveColumns ==
    SingleNodeCase
        => /\ outcome.result.index = curves.index
           /\ Range(outcome.result.columns) = Range(curves.columns) \cup Range(ExtraKeys)
           /\ outcome.result.nacols = Range(ExtraKeys)
           /\ \A i \in 1..Len(curves.index) :
                \A k \in Range(curves.columns) : ScaledCell(i, k)

-----------------------------------------------------------------------------
(* C5: a list of nodes *)

\* the single-node results of the listed nodes, with the call's other arguments
SingleResults ==
    [n \in 1..Len(call.node.val) |->
        regionalise_node(curves, reg, StrArg(call.node.val[n]), call.sector, call.hours)]

\* C5: regionalise_node called with a list of node keys succeeds and returns a
\* result indexed by (node, hour) whose slice at each listed node equals the
\* result of the call with that single node: same values, same hour ordering.
C5_MultiNodeStacking ==
    (/\ Called("regionalise_node") /\ call.node.kind = "list"
     /\ \A n \in 1..Len(call.node.val) : SingleResults[n].exc = NoExc)
        => /\ Returned
           /\ \A n \in 1..Len(call.node.val) :
                LET single == SingleResults[n].result
                    base == (n - 1) * Len(single.index)
                IN  \A i \in 1..Len(single.index) :
                      /\ outcome.result.index[base + i] = <<call.node.val[n], single.index[i]>>
                      /\ outcome.result.values[base + i] = single.values[i]

-----------------------------------------------------------------------------
(* C6: a subset of nodes in regionalise_curves *)

NodeSubsetCase ==
    /\ Called("regionalise_curves")
    /\ ValidInputs
    /\ call.node # None /\ Range(AsList(call.node)) \subseteq Range(reg.index)
    /\ call.sector = None /\ call.hours = None

\* C6: for valid inputs, regionalise_curves with a list of nodes returns a result
\* and logs exactly one ambiguity warning; the result has exactly the listed
\* nodes as columns and each cell is the sum over all sectors of
\* curves[hour, sector] * reg[node, sector].  A single node key given as a
\* string is promoted to a one-element selection and logs no ambiguity warning.
C6_NodeSubsetWarnsOnce ==
    NodeSubsetCase
        => /\ Returned
           /\ outcome.result.index = curves.index
           /\ outcome.result.columns = AsList(call.node)
           /\ \A i \in 1..Len(curves.index) :
                \A k \in Range(AsList(call.node)) : ResultCell(i, k) = Projection(i, k)
           /\ call.node.kind = "list"
                => /\ Len(AmbiguityWarnings) = 1
                   /\ log = <<Warning("returning dot product for subset of multiple nodes", <<>>)>>
           /\ call.node.kind = "str" => log = <<>>

\* a two-node subset was returned with its one warning
C6_Witness ==
    /\ NodeSubsetCase
    /\ call.node.kind = "list" /\ Len(call.node.val) = 2
    /\ Returned
    /\ Len(log) = 1
    /\ outcome.result.columns = call.node.val

-----------------------------------------------------------------------------
(* C7: normalization and the computation *)

EntryPointReturned ==
    /\ call.op \in {"regionalise_curves", "regionalise_node"}
    /\ Returned

\* C7 as claimed: whenever regionalise_curves or regionalise_node returns a
\* result, every column of reg sums to 1 within the precision.
C7_NormalizedBeforeDistribution == EntryPointReturned => RegNormalized

\* C7 amended: whenever regionalise_curves or regionalise_node returns a result,
\* every column of reg either sums to 1 within the precision or was reported by
\* exactly one warning naming the key and its sum; the computation runs on
\* the unnormalized weights all the same.
C7_NormalizedOrWarned ==
    EntryPointReturned => NormalizationWarnings =
        [n \in 1..Len(Offending(DefaultPrec)) |->
            Warning("Regionalisation key does not sum to 1", Reported(DefaultPrec)[n])]

\* a result was returned although a column of reg does not sum to 1
C7_Witness ==
    /\ EntryPointReturned
    /\ ~RegNormalized
    /\ Len(NormalizationWarnings) = Len(Offending(DefaultPrec))
    /\ outcome.result # NoTable

-----------------------------------------------------------------------------
(* C8: the normalization check of validate_regionalisation *)

ChecksumCase ==
    /\ Called("validate_regionalisation")
    /\ MissingKeys = <<>> /\ ExtraKeys = <<>>

\* C8: with no key missing or extra, a column is offending exactly when its sum
\* rounded to prec decimals differs from 1.  Without an offending column nothing
\* is logged or raised; in warn mode one warning per offending key is logged and
\* the call returns; in raise mode a ValueError lists every offending key with
\* its summed value.
C8_NormalizationCheck ==
    ChecksumCase
        => IF Offending(call.prec) = <<>>
           THEN Returned /\ log = <<>>
           ELSE IF call.errors = "warn"
           THEN /\ Returned
                /\ log = [n \in 1..Len(Offending(call.prec)) |->
                            Warning("Regionalisation key does not sum to 1",
                                    Reported(call.prec)[n])]
           ELSE /\ RaisedType("ValueError")
                /\ outcome.exc.msg = "Regionalisation key(s) do not sum to 1"
                /\ outcome.exc.args = Reported(call.prec)
                /\ log = <<>>

\* raise mode listed two offending keys, at the default precision
C8_Witness ==
    /\ ChecksumCase
    /\ call.errors = "raise" /\ call.prec = DefaultPrec
    /\ Len(Offending(call.prec)) = 2
    /\ RaisedType("ValueError")
    /\ Len(outcome.exc.args) = 2

-----------------------------------------------------------------------------
(* C9: reg keys that curves does not use *)

ExtraKeysCase == MissingKeys = <<>> /\ ExtraKeys # <<>>

\* C9: with extra reg columns and none missing, validate_regionalisation in warn
\* mode logs one warning per extra key and does not raise, so that
\* regionalise_curves and regionalise_node still proceed to a result; in raise
\* mode it raises a KeyError naming the extra keys.
C9_ExtraKeysDoNotBlock ==
    /\ (Called("validate_regionalisation") /\ ExtraKeysCase /\ call.errors = "warn")
          => /\ Returned
             /\ UnusedKeyWarnings =
                  [n \in 1..Len(ExtraKeys) |->
                      Warning("Unused key in regionalisation", ExtraKeys[n])]
    /\ (Called("validate_regionalisation") /\ ExtraKeysCase /\ call.errors = "raise")
          => /\ RaisedType("KeyError")
             /\ outcome.exc.msg = "Unused key(s) in regionalisation"
             /\ outcome.exc.args = ExtraKeys
    /\ (/\ Called("regionalise_curves") /\ Unsubsetted
        /\ ExtraKeysCase /\ HasSupply /\ HasDemand /\ ~Unbalanced)
          => Returned
    /\ (/\ Called("regionalise_node")
        /\ call.node.kind = "str" /\ call.node.val \in Range(reg.index)
        /\ call.sector = None /\ call.hours = None
        /\ ExtraKeysCase /\ HasSupply /\ HasDemand)
          => Returned

\* The part of C9 about the validator alone.
C9_ValidatorOnExtraKeys ==
    (Called("validate_regionalisation") /\ ExtraKeysCase)
        => IF call.errors = "warn"
           THEN /\ Returned
                /\ UnusedKeyWarnings =
                     [n \in 1..Len(ExtraKeys) |->
                         Warning("Unused key in regionalisation", ExtraKeys[n])]
           ELSE /\ RaisedType("KeyError")
                /\ outcome.exc.msg = "Unused key(s) in regionalisation"
                /\ outcome.exc.args = ExtraKeys

-----------------------------------------------------------------------------
(* C10: the validators of regionalise_node *)

\* the exception with which regionalise_curves aborts in validation, if any
ValidationAbort ==
    LET v1 == validate_hourly_curves_balance(curves, DefaultPrecision, "raise")
        v2 == validate_regionalisation(curves, reg, DefaultPrec, "warn")
    IN  IF v1.exc # NoExc THEN v1.exc ELSE v2.exc

\* C10: regionalise_node runs the balance validator in raise mode and then the
\* weight-table validator in default mode, like regionalise_curves: on every
\* (curves, reg) on which regionalise_curves aborts in validation,
\* regionalise_node with a valid node key aborts with the same error and
\* returns no result.
C10_SameValidators ==
    (/\ Called("regionalise_node")
     /\ call.node.kind = "str" /\ call.node.val \in Range(reg.index)
     /\ ValidationAbort.type # "none")
        => /\ NoResult
           /\ outcome.exc.type = ValidationAbort.type
           /\ outcome.exc.msg = ValidationAbort.msg
           /\ outcome.exc.args = ValidationAbort.args

\* Where the two entry points do agree: regionalise_node aborts in validation
\* exactly as regionalise_curves does, except that unbalanced curves are only
\* warned about.
C10_SameValidatorsButBalanceWarns ==
    (/\ Called("regionalise_node")
     /\ call.node.kind = "str" /\ call.node.val \in Range(reg.index)
     /\ ValidationAbort.type # "none")
        => IF ValidationAbort.type = "BalanceError"
           THEN /\ log # <<>> /\ log[1] = Warning("Deficits in curves", <<>>)
                /\ (MissingKeys # <<>> <=> RaisedMissingKeys)
           ELSE /\ NoResult
                /\ outcome.exc.type = ValidationAbort.type
                /\ outcome.exc.msg = ValidationAbort.msg
                /\ outcome.exc.args = ValidationAbort.args

-----------------------------------------------------------------------------
(* C11: the caller's tables after a call *)

\* a frame object that the call itself built
NewFrame(t) == t.obj \in {"dot", "mul"}

\* C11: inputs are never mutated.  Every call of one of the four functions,
\* whether it returns, warns or raises and whatever node, sector or hours
\* subset it is given, leaves the caller's curves and reg as they were
\* (values, row labels, column labels), and a table it returns is a frame
\* the call built, not one of the caller's
C11_InputsNotMutated ==
    [][/\ curves' = curves
       /\ reg' = reg
       /\ outcome'.kind = "return" /\ outcome'.result # NoTable
            => NewFrame(outcome'.result)]_vars

\* a call with a node, a sector and an hours subset has returned a table while
\* the validator had columns to rename on its copy
C11_Witness ==
    /\ Called("regionalise_curves")
    /\ Returned
    /\ call.node # None /\ call.sector # None /\ call.hours # None
    /\ NewFrame(outcome.result)
    /\ FramesAfterMapping(curves)[Copy("argument")].columns # curves.columns

-----------------------------------------------------------------------------
(* C12: the outcomes of the balance validator *)

\* the call of the balance validator saw a deficit: the supply columns minus
\* the demand columns of some hour (a group without columns sums to 0) do not
\* round to 0 at the precision of the call
DeficitSeen == HasDeficit(curves, call.prec)

\* a deficit gives one warning and a return in warn mode and BalanceError in
\* raise mode; no deficit gives a silent return
BalanceOutcome ==
    IF DeficitSeen
    THEN IF call.errors = "warn"
         THEN Returned /\ log = <<Warning("Deficits in curves", <<>>)>>
         ELSE RaisedType("BalanceError") /\ log = <<>>
    ELSE Returned /\ log = <<>>

\* C12: for every curve table, whatever mix of supply, demand and unclassified
\* columns it has, validate_hourly_curves_balance sums the supply and the
\* demand columns per hour and ends in a normal return (with exactly one
\* warning when some hour does not round to 0 and errors is "warn", silently
\* when every hour does) or in BalanceError (some hour does not round to 0
\* and errors is "raise"); there is no other outcome.
C12_ReturnOrBalanceError ==
    Called("validate_hourly_curves_balance") => BalanceOutcome

\* On the tables that have a supply and a demand column the outcomes are the
\* stated ones, unclassified columns left out; a table that lacks one of the
\* two groups ends in the KeyError of the lookup of that group.
C12_OutcomeWhenClassified ==
    Called("validate_hourly_curves_balance")
        => IF HasSupply /\ HasDemand THEN BalanceOutcome
           ELSE IF HasSupply THEN RaisedNoGroup("demand")
           ELSE RaisedNoGroup("supply")

-----------------------------------------------------------------------------
(* C13: the hours subset *)

\* what the call made with the same node and sector but without hours gives
WithoutHours ==
    IF call.op = "regionalise_curves"
    THEN regionalise_curves(curves, reg, call.node, call.sector, None)
    ELSE regionalise_node(curves, reg, call.node, call.sector, None)

\* an entry point was called with hours, and nothing but the hours subset can
\* make the call fail
HoursCase ==
    /\ Called("regionalise_curves") \/ Called("regionalise_node")
    /\ call.hours # None
    /\ WithoutHours.exc = NoExc

Hours == AsList(call.hours)

\* the result holds, in the given order, the rows that the call without hours
\* has at the rows `rows` of curves, under the labels curves has there
SelectsRows(rows) ==
    /\ Returned
    /\ outcome.result.index = [n \in 1..Len(rows) |-> curves.index[rows[n]]]
    /\ outcome.result.values =
          [n \in 1..Len(rows) |-> WithoutHours.result.values[rows[n]]]
    /\ outcome.result.columns = WithoutHours.result.columns

\* C13: hour subsetting is by row label.  For regionalise_curves and
\* regionalise_node, hours given as one integer or as an ordered collection of
\* integers selects exactly the rows of curves whose row labels are those
\* integers, in the given order, whatever the index of curves; an hour that is
\* no row label of curves (a negative one included) makes the call raise and
\* return no result.
C13_HoursByLabel ==
    HoursCase =>
        IF Range(Hours) \subseteq Range(curves.index)
        THEN SelectsRows([n \in 1..Len(Hours) |-> Pos(curves.index, Hours[n])])
        ELSE NoResult

\* What the code does: hours are positions.  Hour h >= 0 is the row h + 1 of
\* curves and hour h < 0 the row h + 1 counted from behind the last one,
\* whatever the row labels; a position outside the table is an IndexError.
C13_HoursByPosition ==
    HoursCase =>
        IF \A n \in 1..Len(Hours) : -Len(curves.index) <= Hours[n] /\ Hours[n] < Len(curves.index)
        THEN SelectsRows([n \in 1..Len(Hours) |->
                IF Hours[n] >= 0 THEN Hours[n] + 1
                ELSE Len(curves.index) + Hours[n] + 1])
        ELSE RaisedType("IndexError") /\ NoResult

-----------------------------------------------------------------------------
(* C14: reads of the custom curves after modifications *)

\* the last call was a read of the custom curves and no call before it raised
ReadAfterSuccesses ==
    last.op = "get_custom_curves" /\ last.kind = "return" /\ ~last.failed

\* the curves attached on the server, subset to the keys the read asked for
AttachedNow ==
    Frame(server,
          SelectSeq(IF last.args = <<>> THEN CurveKeys ELSE last.args,
                    LAMBDA k : server[k] # Unattached))

\* C14: custom-curve reads are never stale.  After any sequence of successful
\* upload_custom_curve, upload_custom_curves, delete_custom_curve and
\* delete_custom_curves calls, a read of custom_curves or get_custom_curves()
\* returns exactly the curves attached on the server at that moment, never a
\* result that get_custom_curves cached before the modification.
C14_ReadsNeverStale == ReadAfterSuccesses => last.result = AttachedNow

\* A read that lru_cache did not answer returns the attached curves.
C14_FreshWhenComputed ==
    (ReadAfterSuccesses /\ ~last.cached) => last.result = AttachedNow

\* No upload and no delete empties the cache of get_custom_curves: its entry
\* stays until a read with other arguments replaces it.
C14_ModificationsKeepCache ==
    [][last'.op \notin {"get_custom_curves", "none"} => ccurves_cache' = ccurves_cache]_vars

====
